---- MODULE Spec2Model ----
(***************************************************************************)
(* ci/test/mkpipeline.py: the generator of the CI pipeline.  main() loads  *)
(* the pipeline template, trims it with trim_pipeline() unless the build   *)
(* is of master or of a tag, and uploads it.  trim_pipeline() builds the   *)
(* step graph, asks git which steps' inputs changed with respect to        *)
(* origin/master, closes the changed set over depends_on, and restricts    *)
(* the pipeline to the needed steps.                                       *)
(*                                                                         *)
(* Python strings that the code slices (an inputs entry, whose leading "#" *)
(* is tested and cut off) are sequences of tokens; every other string is a *)
(* TLA+ string.  A YAML value whose type the code tests (depends_on) is a  *)
(* record [t, v]: t is "scalar" or "list", v the tokens; the tokens of     *)
(* IntTokens are YAML integers, every other token is a YAML string.        *)
(***************************************************************************)
EXTENDS Integers, Sequences, FiniteSets, TLC

VARIABLES
    template,   \* the content of pipeline.template.yml
    environ,    \* os.environ: BUILDKITE_BRANCH, BUILDKITE_TAG
    dirty,      \* the files that differ between origin/master... and the tree
    pc,         \* the position of the process
    pipeline,   \* main's pipeline document
    steps,      \* trim_pipeline's steps: the keys in order, and the map
    i,          \* the position of the change-detection loop in steps.values()
    changed,    \* trim_pipeline's changed
    needed,     \* trim_pipeline's needed
    roots,      \* the ids that "for step_id in changed" has yet to yield
    stack,      \* the active calls of visit: the step, the dependencies to go
    error,      \* the exception that ended the process, or NoError
    git,        \* the git commands run so far, in order
    uploaded,   \* the documents handed to buildkite-agent pipeline upload
    prev        \* the outcomes of the earlier runs of main

vars == <<template, environ, dirty, pc, pipeline, steps, i, changed, needed,
          roots, stack, error, git, uploaded, prev>>

----------------------------------------------------------------------------
(* Bounds of the model. *)

\* The number of steps of a pipeline template.
MaxSteps == 3

\* The number of depends_on edges of a template of the graph family.
MaxEdges == 2

StepNames == <<"A", "B", "C", "D", "E", "F">>

\* The ids of the steps of a template.
Ids == {StepNames[n] : n \in 1..MaxSteps}

\* An id that no step of any template has.
MissingId == "Z"

\* The tokens that are YAML integers.
IntTokens == {"7"}

----------------------------------------------------------------------------
(* The environment: the repository, the mzbuild images, the files. *)

\* Step s's default glob and the one file under it.
OwnGlob(s) == s \o "/"
OwnFile(s) == s \o "/f"

\* A pathspec outside the repository: git diff dies on it with status 128.
BadPathspec == "../outside"

\* repo.resolve_dependencies(image for image in repo): each image's name and
\* its inputs(transitive=True).  img2 depends on img1.
Images ==
    [name \in {"img1", "img2"} |->
        IF name = "img1" THEN {"src/img1/main"}
        ELSE {"src/img2/main", "src/img1/main"}]

Files == {OwnFile(s) : s \in Ids} \cup {"src/img1/main", "src/img2/main"}

\* The files a pathspec selects.
Matched(pathspec) ==
    {f \in Files : f = pathspec \/ \E s \in Ids : pathspec = OwnGlob(s) /\ f = OwnFile(s)}

\* The exit status of git diff --no-patch --quiet origin/master... -- *paths:
\* 1 when a selected file differs, 0 when none does, 128 when git fails.
\* No pathspec at all selects every file.
GitDiffQuiet(paths, d) ==
    IF BadPathspec \in paths THEN 128
    ELSE IF paths = {} THEN (IF d # {} THEN 1 ELSE 0)
    ELSE IF \E p \in paths : Matched(p) \cap d # {} THEN 1
    ELSE 0

\* The mzcompose configurations on disk: path -> the parsed document.
ComposeFiles ==
    [path \in {"mzcompose.yml", "other.yml"} |->
        IF path = "mzcompose.yml"
        THEN [services |-> [name \in {"db", "app"} |->
                 IF name = "app" THEN [mzbuild |-> "img1"] ELSE [image |-> "postgres"]]]
        ELSE [services |-> [name \in {"app"} |-> [mzbuild |-> "nope"]]]]

----------------------------------------------------------------------------
(* Exceptions. *)

NoError == [type |-> "", msg |-> <<>>]

Raise(type, msg) == [type |-> type, msg |-> msg]

----------------------------------------------------------------------------
(* PipelineStep *)

\* PipelineStep.__init__
PipelineStep(id) ==
    [id |-> id, manual_inputs |-> {}, image_dependencies |-> {}, step_dependencies |-> {}]

\* An inputs() that leaves the images out.
InputsManualOnly(step) == step.manual_inputs

\* PipelineStep.inputs
Inputs(step) ==
    step.manual_inputs \cup UNION {Images[image] : image \in step.image_dependencies}

----------------------------------------------------------------------------
(* trim_pipeline: the step graph.  Each stage of the loop body takes and   *)
(* returns [err, step]; a stage that finds err set passes it on, as the    *)
(* exception leaves the loop.                                              *)

\* "".join of the tokens of a string.
RECURSIVE Join(_)
Join(toks) == IF toks = <<>> THEN "" ELSE Head(toks) \o Join(Tail(toks))

\* inp.startswith("#")
StartsWithMarker(inp) == inp # <<>> /\ Head(inp) = "#"

\* A parse that passes over an image name the resolver does not know.
RECURSIVE ParseInputsSkipsUnknown(_, _)
ParseInputsSkipsUnknown(inps, acc) ==
    IF inps = <<>> \/ acc.err # NoError THEN acc
    ELSE LET inp == Head(inps)
             name == Join(Tail(inp))
         IN  IF StartsWithMarker(inp)
             THEN IF name \in DOMAIN Images
                  THEN ParseInputsSkipsUnknown(Tail(inps),
                          [acc EXCEPT !.step.image_dependencies = @ \cup {name}])
                  ELSE ParseInputsSkipsUnknown(Tail(inps), acc)
             ELSE ParseInputsSkipsUnknown(Tail(inps),
                     [acc EXCEPT !.step.manual_inputs = @ \cup {Join(inp)}])

\* for inp in config["inputs"]
RECURSIVE ParseInputs(_, _)
ParseInputs(inps, acc) ==
    IF inps = <<>> \/ acc.err # NoError THEN acc
    ELSE LET inp == Head(inps)
             name == Join(Tail(inp))
         IN  IF StartsWithMarker(inp)
             THEN IF name \in DOMAIN Images
                  THEN ParseInputs(Tail(inps),
                          [acc EXCEPT !.step.image_dependencies = @ \cup {name}])
                  ELSE [acc EXCEPT !.err = Raise("KeyError", <<name>>)]
             ELSE ParseInputs(Tail(inps),
                     [acc EXCEPT !.step.manual_inputs = @ \cup {Join(inp)}])

\* isinstance(d, str), isinstance(d, list)
IsStr(d) == d.t = "scalar" /\ d.v[1] \notin IntTokens
IsList(d) == d.t = "list"

\* The elements of a sequence.
Range(seq) == {seq[n] : n \in DOMAIN seq}

\* A parse that lets a depends_on that is no string and no list pass.
ParseDependsOnLenient(config, acc) ==
    IF acc.err # NoError \/ "depends_on" \notin DOMAIN config THEN acc
    ELSE LET d == config.depends_on
         IN  IF IsStr(d)
             THEN [acc EXCEPT !.step.step_dependencies = @ \cup {d.v[1]}]
             ELSE IF IsList(d)
             THEN [acc EXCEPT !.step.step_dependencies = @ \cup Range(d.v)]
             ELSE acc

\* if "depends_on" in config
ParseDependsOn(config, acc) ==
    IF acc.err # NoError \/ "depends_on" \notin DOMAIN config THEN acc
    ELSE LET d == config.depends_on
         IN  IF IsStr(d)
             THEN [acc EXCEPT !.step.step_dependencies = @ \cup {d.v[1]}]
             ELSE IF IsList(d)
             THEN [acc EXCEPT !.step.step_dependencies = @ \cup Range(d.v)]
             ELSE [acc EXCEPT !.err =
                      Raise("ValueError",
                            <<"unexpected non-str non-list for depends_on: ", d.v[1]>>)]

\* find_compose_images
FindComposeImages(path) ==
    IF path \notin DOMAIN ComposeFiles
    THEN [err |-> Raise("FileNotFoundError", <<path>>), out |-> {}]
    ELSE LET services == ComposeFiles[path].services
             named == {services[s].mzbuild :
                          s \in {n \in DOMAIN services : "mzbuild" \in DOMAIN services[n]}}
             unknown == named \ DOMAIN Images
         IN  IF unknown # {}
             THEN [err |-> Raise("KeyError", <<CHOOSE n \in unknown : TRUE>>), out |-> {}]
             ELSE [err |-> NoError, out |-> named]

\* A loop over the plugins that takes no plugin for the mzcompose plugin.
ParsePluginsNoneMatches(plugins, acc) == acc

\* for plugin in config["plugins"]: each plugin is a one-key mapping
RECURSIVE ParsePlugins(_, _)
ParsePlugins(plugins, acc) ==
    IF plugins = <<>> \/ acc.err # NoError THEN acc
    ELSE LET plugin == Head(plugins)
         IN  IF plugin.name = "./ci/plugins/mzcompose"
             THEN LET found == FindComposeImages(plugin.config.config)
                  IN  IF found.err # NoError THEN [acc EXCEPT !.err = found.err]
                      ELSE ParsePlugins(Tail(plugins),
                              [acc EXCEPT !.step.image_dependencies = @ \cup found.out])
             ELSE ParsePlugins(Tail(plugins), acc)

\* The body of "for config in pipeline["steps"]", up to steps[step.id] = step.
ParseStep(config) ==
    LET a0 == [err |-> NoError, step |-> PipelineStep(config.id)]
        a1 == IF "inputs" \in DOMAIN config THEN ParseInputs(config.inputs, a0) ELSE a0
        a2 == ParseDependsOn(config, a1)
    IN  IF "plugins" \in DOMAIN config /\ a2.err = NoError
        THEN ParsePlugins(config.plugins, a2)
        ELSE a2

\* OrderedDict()
EmptySteps == [order |-> <<>>, map |-> [k \in {} |-> k]]

\* steps[step.id] = step: a new key goes last, a known key keeps its place.
PutStep(sts, step) ==
    [order |-> IF step.id \in Range(sts.order) THEN sts.order ELSE Append(sts.order, step.id),
     map   |-> [k \in Range(sts.order) \cup {step.id} |->
                   IF k = step.id THEN step ELSE sts.map[k]]]

\* for config in pipeline["steps"]
RECURSIVE BuildSteps(_, _)
BuildSteps(configs, acc) ==
    IF configs = <<>> \/ acc.err # NoError THEN acc
    ELSE LET parsed == ParseStep(Head(configs))
         IN  IF parsed.err # NoError THEN [acc EXCEPT !.err = parsed.err]
             ELSE BuildSteps(Tail(configs),
                     [acc EXCEPT !.steps = PutStep(acc.steps, parsed.step)])

----------------------------------------------------------------------------
(* The pipeline templates and the runs the model starts from. *)

\* rec with key k set to v.
WithKey(rec, k, v) == [f \in DOMAIN rec \cup {k} |-> IF f = k THEN v ELSE rec[f]]

\* A step record with the keys every step of the template has.
BaseConfig(s) == [id |-> s, command |-> "bin/ci " \o s]

\* A step record whose only input is the step's own glob.
DefaultConfig(s) == WithKey(BaseConfig(s), "inputs", <<(<<OwnGlob(s)>>)>>)

Scalar(tok) == [t |-> "scalar", v |-> <<tok>>]
List(toks) == [t |-> "list", v |-> toks]

\* The place of a token in the order the lists of the graph family are written in.
Rank(tok) == IF tok \in Ids THEN CHOOSE n \in 1..MaxSteps : StepNames[n] = tok ELSE MaxSteps + 1

RECURSIVE Sorted(_)
Sorted(toks) ==
    IF toks = {} THEN <<>>
    ELSE LET first == CHOOSE x \in toks : \A y \in toks : Rank(x) <= Rank(y)
         IN  <<first>> \o Sorted(toks \ {first})

\* The depends_on edges a template may have: to a step, or to no step.
AllEdges == Ids \X (Ids \cup {MissingId})

RECURSIVE EdgeSets(_)
EdgeSets(k) ==
    IF k = 0 THEN {{}}
    ELSE LET smaller == EdgeSets(k - 1)
         IN  smaller \cup {es \cup {e} : es \in smaller, e \in AllEdges}

\* The graph family: every step has its own glob; one dependency is written
\* as a string, several as a list.
GraphConfig(s, edges) ==
    LET deps == {e[2] : e \in {x \in edges : x[1] = s}}
    IN  IF deps = {} THEN DefaultConfig(s)
        ELSE IF Cardinality(deps) = 1
        THEN WithKey(DefaultConfig(s), "depends_on", Scalar(CHOOSE x \in deps : TRUE))
        ELSE WithKey(DefaultConfig(s), "depends_on", List(Sorted(deps)))

Document(configs) == [dag |-> TRUE, steps |-> configs]

GraphTemplates ==
    {Document([n \in 1..MaxSteps |-> GraphConfig(StepNames[n], edges)]) :
        edges \in EdgeSets(MaxEdges)}

\* The shape family: the first step's depends_on takes every shape.
DependsOnShapes ==
    {Scalar(StepNames[2]), List(<<StepNames[2]>>), List(<<>>),
     List(<<StepNames[2], StepNames[2]>>), List(<<MissingId, StepNames[1]>>),
     Scalar("7"), List(<<"7">>), List(<<StepNames[2], "7">>)}

ShapeTemplates ==
    {Document([n \in 1..MaxSteps |->
         IF n = 1 THEN WithKey(DefaultConfig(StepNames[n]), "depends_on", d)
         ELSE DefaultConfig(StepNames[n])]) : d \in DependsOnShapes}

\* The input family: the first step's inputs and plugins take every form,
\* and the second step depends on the first.
Glob(s) == <<OwnGlob(s)>>
Image(name) == <<"#", name>>

InputForms ==
    {<<>>, <<Glob("A")>>, <<Image("img1")>>, <<Image("img2")>>,
     <<Glob("A"), Image("img1")>>, <<Image("img1"), Image("img2")>>,
     <<Image("nope")>>, <<(<<"#">>)>>, <<(<<BadPathspec>>)>>}

Mzcompose(path) == [name |-> "./ci/plugins/mzcompose", config |-> [config |-> path]]
Docker == [name |-> "docker", config |-> [image |-> "ubuntu"]]

PluginForms ==
    {<<>>, <<Docker>>, <<Mzcompose("mzcompose.yml")>>, <<Docker, Mzcompose("mzcompose.yml")>>,
     <<Mzcompose("other.yml")>>, <<Mzcompose("missing.yml")>>}

InputConfigs ==
    {BaseConfig("A")}
    \cup {WithKey(BaseConfig("A"), "inputs", inps) : inps \in InputForms}
    \cup {WithKey(BaseConfig("A"), "plugins", plugs) : plugs \in PluginForms}
    \cup {WithKey(WithKey(BaseConfig("A"), "inputs", inps), "plugins", plugs) :
            inps \in InputForms, plugs \in PluginForms}

InputTemplates ==
    {Document([n \in 1..MaxSteps |->
         IF n = 1 THEN first
         ELSE IF n = 2 THEN WithKey(DefaultConfig(StepNames[n]), "depends_on", Scalar("A"))
         ELSE DefaultConfig(StepNames[n])]) : first \in InputConfigs}

Environ(branch, tag) == [BUILDKITE_BRANCH |-> branch, BUILDKITE_TAG |-> tag]

Environs == {Environ(b, t) : b \in {"master", "feature"}, t \in {"", "v0.1.0"}}

Scenario(tpl, d, env) == [template |-> tpl, dirty |-> d, environ |-> env]

Scenarios ==
    {Scenario(tpl, d, Environ("feature", "")) :
        tpl \in GraphTemplates, d \in SUBSET {OwnFile(s) : s \in Ids}}
    \cup {Scenario(tpl, d, env) :
        tpl \in ShapeTemplates, d \in SUBSET {OwnFile(s) : s \in Ids}, env \in Environs}
    \cup {Scenario(tpl, d, Environ("feature", "")) :
        tpl \in InputTemplates,
        d \in SUBSET {OwnFile("A"), OwnFile("B"), "src/img1/main", "src/img2/main"}}

----------------------------------------------------------------------------
(* The process. *)

\* The state main() starts in; the scenario's part is set by Init and kept.
Start ==
    /\ pc = "main"
    /\ pipeline = Document(<<>>)
    /\ steps = EmptySteps
    /\ i = 1
    /\ changed = {}
    /\ needed = {}
    /\ roots = {}
    /\ stack = <<>>
    /\ error = NoError
    /\ git = <<>>
    /\ uploaded = <<>>

Init ==
    /\ \E sc \in Scenarios :
          /\ template = sc.template
          /\ dirty = sc.dirty
          /\ environ = sc.environ
    /\ prev = <<>>
    /\ Start

\* A main that catches the exception of trim_pipeline and goes on to upload.
FailThenUpload(e) ==
    /\ error' = e
    /\ pc' = "upload"

\* raise: the exception leaves trim_pipeline and main, and the process ends.
Fail(e) ==
    /\ error' = e
    /\ pc' = "failed"

\* A condition of trimming with "or" in the place of "and".
TrimRunsEither == environ.BUILDKITE_BRANCH # "master" \/ environ.BUILDKITE_TAG = ""

\* if os.environ["BUILDKITE_BRANCH"] != "master" and not os.environ["BUILDKITE_TAG"]
TrimRuns == environ.BUILDKITE_BRANCH # "master" /\ environ.BUILDKITE_TAG = ""

\* main, up to the call of trim_pipeline.
Main ==
    /\ pc = "main"
    /\ pipeline' = template
    /\ pc' = IF TrimRuns THEN "build" ELSE "upload"
    /\ UNCHANGED <<template, environ, dirty, steps, i, changed, needed, roots, stack,
                   error, git, uploaded, prev>>

\* trim_pipeline: the step graph.
Build ==
    /\ pc = "build"
    /\ LET built == BuildSteps(pipeline.steps, [err |-> NoError, steps |-> EmptySteps])
       IN  IF built.err # NoError
           THEN Fail(built.err) /\ UNCHANGED steps
           ELSE steps' = built.steps /\ pc' = "fetch" /\ UNCHANGED error
    /\ UNCHANGED <<template, environ, dirty, pipeline, i, changed, needed, roots, stack,
                   git, uploaded, prev>>

GitFetch == [cmd |-> "fetch", step |-> "", paths |-> {}]
GitDiffStat == [cmd |-> "diff --stat", step |-> "", paths |-> {}]
GitDiff(id, paths) == [cmd |-> "diff --quiet", step |-> id, paths |-> paths]

\* A trim_pipeline without the fetch.
FetchLeftOut ==
    /\ pc = "fetch"
    /\ git' = Append(git, GitDiffStat)
    /\ i' = 1
    /\ changed' = {}
    /\ pc' = "diff"
    /\ UNCHANGED <<template, environ, dirty, pipeline, steps, needed, roots, stack,
                   error, uploaded, prev>>

\* git fetch origin master, then the summary of all changes.
Fetch ==
    /\ pc = "fetch"
    /\ git' = git \o <<GitFetch, GitDiffStat>>
    /\ i' = 1
    /\ changed' = {}
    /\ pc' = "diff"
    /\ UNCHANGED <<template, environ, dirty, pipeline, steps, needed, roots, stack,
                   error, uploaded, prev>>

\* spawn.runv raises when git fetch fails.
FetchFails ==
    /\ pc = "fetch"
    /\ git' = Append(git, GitFetch)
    /\ Fail(Raise("CalledProcessError", <<"git fetch origin master">>))
    /\ UNCHANGED <<template, environ, dirty, pipeline, steps, i, changed, needed, roots,
                   stack, uploaded, prev>>

\* A change detection that queries git for every step.
SkipsDiffNever(inputs) == FALSE

\* if not inputs: continue
SkipsDiff(inputs) == inputs = {}

\* if diff.returncode != 0: changed.add(step.id)
CountsAsChanged(returncode) == returncode # 0

\* One turn of "for step in steps.values()" of the change detection.
DiffStep ==
    /\ pc = "diff"
    /\ i <= Len(steps.order)
    /\ LET step == steps.map[steps.order[i]]
           inputs == Inputs(step)
       IN  IF SkipsDiff(inputs)
           THEN UNCHANGED <<git, changed>>
           ELSE /\ git' = Append(git, GitDiff(step.id, inputs))
                /\ changed' = IF CountsAsChanged(GitDiffQuiet(inputs, dirty))
                              THEN changed \cup {step.id} ELSE changed
    /\ i' = i + 1
    /\ UNCHANGED <<template, environ, dirty, pc, pipeline, steps, needed, roots, stack,
                   error, uploaded, prev>>

\* A closure that starts from every step.
DiffDoneAllRoots ==
    /\ pc = "diff"
    /\ i > Len(steps.order)
    /\ needed' = {}
    /\ roots' = Range(steps.order)
    /\ stack' = <<>>
    /\ pc' = "closure"
    /\ UNCHANGED <<template, environ, dirty, pipeline, steps, i, changed, error, git,
                   uploaded, prev>>

\* The change detection is over: needed = set(), and the loop over changed begins.
DiffDone ==
    /\ pc = "diff"
    /\ i > Len(steps.order)
    /\ needed' = {}
    /\ roots' = changed
    /\ stack' = <<>>
    /\ pc' = "closure"
    /\ UNCHANGED <<template, environ, dirty, pipeline, steps, i, changed, error, git,
                   uploaded, prev>>

\* A visit that does not go on to the dependencies.
VisitNoRecursion(step, callers) ==
    IF step.id \notin needed
    THEN /\ needed' = needed \cup {step.id}
         /\ stack' = Append(callers, [id |-> step.id, rest |-> {}])
    ELSE /\ needed' = needed
         /\ stack' = callers

\* A visit whose needed.add stands inside the loop over the dependencies.
VisitAddsInLoop(step, callers) ==
    IF step.id \notin needed
    THEN /\ needed' = IF step.step_dependencies # {} THEN needed \cup {step.id} ELSE needed
         /\ stack' = Append(callers, [id |-> step.id, rest |-> step.step_dependencies])
    ELSE /\ needed' = needed
         /\ stack' = callers

\* A visit that goes on to the steps that depend on the step as well.
VisitDependentsToo(step, callers) ==
    IF step.id \notin needed
    THEN /\ needed' = needed \cup {step.id}
         /\ stack' = Append(callers,
                [id |-> step.id,
                 rest |-> step.step_dependencies \cup
                     {s \in DOMAIN steps.map : step.id \in steps.map[s].step_dependencies}])
    ELSE /\ needed' = needed
         /\ stack' = callers

\* A visit without the test of needed.
VisitAlways(step, callers) ==
    /\ needed' = needed \cup {step.id}
    /\ stack' = Append(callers, [id |-> step.id, rest |-> step.step_dependencies])

\* visit(step): a step not yet needed becomes needed and its dependencies are
\* to be visited; a needed step returns at once.
Visit(step, callers) ==
    IF step.id \notin needed
    THEN /\ needed' = needed \cup {step.id}
         /\ stack' = Append(callers, [id |-> step.id, rest |-> step.step_dependencies])
    ELSE /\ needed' = needed
         /\ stack' = callers

\* A loop over changed that ends after its first turn.
VisitRootFirstOnly ==
    /\ pc = "closure"
    /\ stack = <<>>
    /\ \E step_id \in roots :
          /\ roots' = {}
          /\ Visit(steps.map[step_id], stack)
    /\ UNCHANGED <<template, environ, dirty, pc, pipeline, steps, i, changed, error, git,
                   uploaded, prev>>

\* One turn of "for step_id in changed": visit(steps[step_id]).
VisitRoot ==
    /\ pc = "closure"
    /\ stack = <<>>
    /\ \E step_id \in roots :
          /\ roots' = roots \ {step_id}
          /\ Visit(steps.map[step_id], stack)
    /\ UNCHANGED <<template, environ, dirty, pc, pipeline, steps, i, changed, error, git,
                   uploaded, prev>>

\* A loop over the dependencies that passes over an id steps does not have.
VisitDependencyLenient ==
    /\ pc = "closure"
    /\ stack # <<>>
    /\ LET top == stack[Len(stack)]
       IN  \E d \in top.rest :
              LET callers == [stack EXCEPT ![Len(stack)].rest = @ \ {d}]
              IN  IF d \in DOMAIN steps.map
                  THEN Visit(steps.map[d], callers)
                  ELSE needed' = needed /\ stack' = callers
    /\ UNCHANGED <<template, environ, dirty, pc, pipeline, steps, i, changed, roots,
                   error, git, uploaded, prev>>

\* One turn of "for d in step.step_dependencies": visit(steps[d]).
VisitDependency ==
    /\ pc = "closure"
    /\ stack # <<>>
    /\ LET top == stack[Len(stack)]
       IN  \E d \in top.rest :
              LET callers == [stack EXCEPT ![Len(stack)].rest = @ \ {d}]
              IN  IF d \in DOMAIN steps.map
                  THEN Visit(steps.map[d], callers) /\ UNCHANGED <<pc, error>>
                  ELSE Fail(Raise("KeyError", <<d>>)) /\ UNCHANGED <<needed, stack>>
    /\ UNCHANGED <<template, environ, dirty, pipeline, steps, i, changed, roots, git,
                   uploaded, prev>>

\* The loop over a step's dependencies is over: visit returns.
Return ==
    /\ pc = "closure"
    /\ stack # <<>>
    /\ stack[Len(stack)].rest = {}
    /\ stack' = SubSeq(stack, 1, Len(stack) - 1)
    /\ UNCHANGED <<template, environ, dirty, pc, pipeline, steps, i, changed, needed,
                   roots, error, git, uploaded, prev>>

\* A restriction that puts each kept step before the steps kept so far.
RECURSIVE RestrictedReversed(_, _)
RestrictedReversed(configs, keep) ==
    IF configs = <<>> THEN <<>>
    ELSE IF Head(configs).id \in keep
    THEN RestrictedReversed(Tail(configs), keep) \o <<Head(configs)>>
    ELSE RestrictedReversed(Tail(configs), keep)

\* A restriction that takes the inputs key out of the steps it keeps.
RECURSIVE RestrictedStripped(_, _)
RestrictedStripped(configs, keep) ==
    IF configs = <<>> THEN <<>>
    ELSE IF Head(configs).id \in keep
    THEN <<[f \in DOMAIN Head(configs) \ {"inputs"} |-> Head(configs)[f]]>>
         \o RestrictedStripped(Tail(configs), keep)
    ELSE RestrictedStripped(Tail(configs), keep)

\* A restriction that keeps the changed steps alone.
RECURSIVE RestrictedChangedOnly(_, _)
RestrictedChangedOnly(configs, keep) ==
    IF configs = <<>> THEN <<>>
    ELSE IF Head(configs).id \in keep \cap changed
    THEN <<Head(configs)>> \o RestrictedChangedOnly(Tail(configs), keep)
    ELSE RestrictedChangedOnly(Tail(configs), keep)

\* [step for step in pipeline["steps"] if step["id"] in needed]
RECURSIVE Restricted(_, _)
Restricted(configs, keep) ==
    IF configs = <<>> THEN <<>>
    ELSE IF Head(configs).id \in keep
    THEN <<Head(configs)>> \o Restricted(Tail(configs), keep)
    ELSE Restricted(Tail(configs), keep)

\* The loop over changed is over: the decisions are printed and the pipeline
\* is restricted to the needed steps; trim_pipeline returns.
Restrict ==
    /\ pc = "closure"
    /\ stack = <<>>
    /\ roots = {}
    /\ pipeline' = [pipeline EXCEPT !.steps = Restricted(pipeline.steps, needed)]
    /\ pc' = "upload"
    /\ UNCHANGED <<template, environ, dirty, steps, i, changed, needed, roots, stack,
                   error, git, uploaded, prev>>

\* main, after trim_pipeline: buildkite-agent pipeline upload.
Upload ==
    /\ pc = "upload"
    /\ uploaded' = Append(uploaded, pipeline)
    /\ pc' = "done"
    /\ UNCHANGED <<template, environ, dirty, pipeline, steps, i, changed, needed, roots,
                   stack, error, git, prev>>

\* What a run of main leaves behind.
Outcome ==
    [pc |-> pc, error |-> error, changed |-> changed, needed |-> needed,
     uploaded |-> uploaded]

\* main runs again, on the same template, environment and repository.
Rerun ==
    /\ pc \in {"done", "failed"}
    /\ prev = <<>>
    /\ prev' = Append(prev, Outcome)
    /\ pc' = "main"
    /\ pipeline' = Document(<<>>)
    /\ steps' = EmptySteps
    /\ i' = 1
    /\ changed' = {}
    /\ needed' = {}
    /\ roots' = {}
    /\ stack' = <<>>
    /\ error' = NoError
    /\ git' = <<>>
    /\ uploaded' = <<>>
    /\ UNCHANGED <<template, environ, dirty>>

Next ==
    \/ Main
    \/ Build
    \/ Fetch
    \/ FetchFails
    \/ DiffStep
    \/ DiffDone
    \/ VisitRoot
    \/ VisitDependency
    \/ Return
    \/ Restrict
    \/ Upload
    \/ Rerun

Spec == Init /\ [][Next]_vars

----------------------------------------------------------------------------
(* What the properties are stated with. *)

\* trim_pipeline has returned: the closure is complete and the pipeline restricted.
Trimmed == TrimRuns /\ pc \in {"upload", "done"}

\* The step graph has been built.
Built == steps # EmptySteps

\* The dependencies of the step with id s; an id that is no step has none.
Deps(s) == IF s \in DOMAIN steps.map THEN steps.map[s].step_dependencies ELSE {}

\* The ids that zero or more depends_on edges lead to from the ids of S.
RECURSIVE Reachable(_)
Reachable(S) ==
    LET more == S \cup UNION {Deps(s) : s \in S}
    IN  IF more = S THEN S ELSE Reachable(more)

\* a is b with some of its elements left out.
RECURSIVE IsSubsequence(_, _)
IsSubsequence(a, b) ==
    IF a = <<>> THEN TRUE
    ELSE IF b = <<>> THEN FALSE
    ELSE IF Head(a) = Head(b) THEN IsSubsequence(Tail(a), Tail(b))
    ELSE IsSubsequence(a, Tail(b))

\* The places of the template's steps whose id is in S.
Places(S) == {n \in DOMAIN template.steps : template.steps[n].id \in S}

\* The diff queries that git was asked about step s.
Queries(s) == {n \in DOMAIN git : git[n].cmd = "diff --quiet" /\ git[n].step = s}

----------------------------------------------------------------------------
(* The properties. *)

\* C1: once the closure is complete, needed is closed under step
\* dependencies: every dependency of a needed step, and every id that
\* dependencies lead to from it, is a needed step, whatever the graph
\* (cycles, self-dependencies) and whatever the changed set.
C1_NeededClosed ==
    Trimmed =>
        \A s \in needed :
            /\ Deps(s) \subseteq needed
            /\ Reachable({s}) \subseteq needed

\* A needed step that was not changed lies on a cycle with another needed step.
C1_Witness ==
    /\ Trimmed
    /\ \E s \in needed, d \in needed :
          s # d /\ d \notin changed /\ d \in Deps(s) /\ s \in Deps(d)

\* C2: once the closure is complete, every changed step is needed, and a
\* step one of whose inputs selects a file that differs from the base
\* revision is needed and has its record in the trimmed pipeline.
C2_ChangedNeeded ==
    Trimmed =>
        /\ changed \subseteq needed
        /\ \A s \in DOMAIN steps.map :
              (\E p \in Inputs(steps.map[s]) : Matched(p) \cap dirty # {}) =>
                  /\ s \in needed
                  /\ \E m \in DOMAIN pipeline.steps : pipeline.steps[m].id = s

\* Two steps changed, one of them without dependencies.
C2_Witness ==
    /\ Trimmed
    /\ Cardinality(changed) >= 2
    /\ \E s \in changed : Deps(s) = {}

\* C3: needed is exactly the set of ids that depends_on edges lead to from
\* the changed steps; a step that is not changed and that no changed step
\* depends on, directly or transitively, is not needed.
C3_NeededMinimal == Trimmed => needed = Reachable(changed)

\* A step is trimmed although it depends on a needed step, and another step
\* is needed although it was not changed.
C3_Witness ==
    /\ Trimmed
    /\ \E s \in DOMAIN steps.map : s \notin needed /\ Deps(s) \cap needed # {}
    /\ needed \ changed # {}

\* C4: a step whose inputs() is empty is never in changed, and git is never
\* asked about it, whatever differs in the repository.
C4_NoInputsNeverChanged ==
    \A s \in DOMAIN steps.map :
        Inputs(steps.map[s]) = {} => s \notin changed /\ Queries(s) = {}

\* The change detection has passed a step without inputs while files differ
\* from the base and another step was found changed.
C4_Witness ==
    /\ pc = "closure"
    /\ dirty # {}
    /\ changed # {}
    /\ \E s \in DOMAIN steps.map : Inputs(steps.map[s]) = {}

\* C5: the trimmed steps are a subsequence of the template's steps.
C5_OrderPreserved == Trimmed => IsSubsequence(pipeline.steps, template.steps)

\* Two steps survive, one is trimmed, and the first survivor is in the
\* pipeline only because a later, changed step depends on it.
C5_Witness ==
    /\ Trimmed
    /\ Len(pipeline.steps) >= 2
    /\ Len(pipeline.steps) < Len(template.steps)
    /\ pipeline.steps[1].id \notin changed

\* C6: the trimmed pipeline holds the template's step records whose id is
\* needed, each once and with every key as it was, and no other record; the
\* other keys of the document are as they were.
C6_TrimmerFrame ==
    Trimmed =>
        /\ \A n \in DOMAIN template.steps :
              (\E m \in DOMAIN pipeline.steps : pipeline.steps[m] = template.steps[n])
                  <=> template.steps[n].id \in needed
        /\ \A m \in DOMAIN pipeline.steps :
              \E n \in DOMAIN template.steps : pipeline.steps[m] = template.steps[n]
        /\ Len(pipeline.steps) = Cardinality(Places(needed))
        /\ DOMAIN pipeline = DOMAIN template
        /\ \A k \in DOMAIN pipeline \ {"steps"} : pipeline[k] = template[k]

\* A step with inputs and depends_on survives and another step is trimmed.
C6_Witness ==
    /\ Trimmed
    /\ Len(pipeline.steps) < Len(template.steps)
    /\ \E m \in DOMAIN pipeline.steps :
          {"inputs", "depends_on"} \subseteq DOMAIN pipeline.steps[m]

\* C7: two runs of main on the same template, environment and repository
\* that both complete end with the same changed set, the same needed set
\* and the same uploaded pipeline, whatever the order in which the sets
\* changed and step_dependencies were iterated; and a run does not complete
\* when the earlier one failed in the graph construction or in the closure.
C7_Deterministic ==
    (prev # <<>> /\ pc = "done") =>
        /\ prev[1].pc = "done" =>
              /\ changed = prev[1].changed
              /\ needed = prev[1].needed
              /\ uploaded = prev[1].uploaded
        /\ prev[1].error.type \notin {"KeyError", "ValueError", "FileNotFoundError"}

\* The second of two complete runs, with two changed steps to start from
\* and a needed step with two dependencies.
C7_Witness ==
    /\ prev # <<>>
    /\ prev[1].pc = "done"
    /\ pc = "done"
    /\ TrimRuns
    /\ Cardinality(changed) >= 2
    /\ \E s \in needed : Cardinality(Deps(s)) >= 2

HasDangling == \E s \in DOMAIN steps.map : ~(Deps(s) \subseteq DOMAIN steps.map)

\* C9 as stated: when a step has a dependency that is no step of the graph,
\* the run produces no trimmed pipeline, whether or not the closure reaches
\* that step.
C9_AsStated ==
    (TrimRuns /\ Built /\ HasDangling) => (pc \notin {"upload", "done"} /\ uploaded = <<>>)

\* C9, amended: when a changed step, or a step that depends_on edges lead to
\* from a changed step, has a dependency that is no step of the graph, the
\* run does not complete: the closure ends it with a KeyError for such an id,
\* the pipeline being left as loaded and not uploaded.  A dependency that is
\* no step but is held only by steps the closure does not reach ends nothing.
C9_ReachedDanglingFatal ==
    /\ Trimmed => Reachable(changed) \subseteq DOMAIN steps.map
    /\ (pc = "failed" /\ Built /\ error.type = "KeyError") =>
          /\ error.msg[1] \in Reachable(changed) \ DOMAIN steps.map
          /\ pipeline = template
          /\ uploaded = <<>>

\* The closure has ended the run on the dependency of a step that was not
\* changed and was reached from a changed one.
C9_Witness ==
    /\ pc = "failed"
    /\ Built
    /\ error.type = "KeyError"
    /\ \E s \in needed \ changed : error.msg[1] \in Deps(s)

\* C10 as stated: a diff query on which git fails, answering neither "same"
\* (0) nor "different" (1), ends the run: the step is not put into changed
\* and nothing is uploaded.
C10_AsStated ==
    \A n \in DOMAIN git :
        (git[n].cmd = "diff --quiet" /\ GitDiffQuiet(git[n].paths, dirty) \notin {0, 1}) =>
            /\ pc = "failed"
            /\ git[n].step \notin changed
            /\ uploaded = <<>>

----------------------------------------------------------------------------
(* What a template's step record asks for, read off the record itself. *)

\* The image names of the inputs entries that begin with "#".
MarkedNames(config) ==
    IF "inputs" \in DOMAIN config
    THEN {Join(Tail(config.inputs[n])) :
             n \in {m \in DOMAIN config.inputs : StartsWithMarker(config.inputs[m])}}
    ELSE {}

\* The inputs entries that do not begin with "#".
PlainEntries(config) ==
    IF "inputs" \in DOMAIN config
    THEN {Join(config.inputs[n]) :
             n \in {m \in DOMAIN config.inputs : ~StartsWithMarker(config.inputs[m])}}
    ELSE {}

\* The mzcompose configurations the record's plugins refer to.
ComposePaths(config) ==
    IF "plugins" \in DOMAIN config
    THEN {config.plugins[n].config.config :
             n \in {m \in DOMAIN config.plugins :
                       config.plugins[m].name = "./ci/plugins/mzcompose"}}
    ELSE {}

\* The image names the services of the mzcompose configuration at path carry.
ServiceImages(path) ==
    LET services == ComposeFiles[path].services
    IN  {services[s].mzbuild : s \in {n \in DOMAIN services : "mzbuild" \in DOMAIN services[n]}}

\* The image names of the services of the record's readable configurations.
ComposeNames(config) ==
    UNION {ServiceImages(path) : path \in ComposePaths(config) \cap DOMAIN ComposeFiles}

\* The image names the template uses that the resolver does not know.
UnknownNames ==
    UNION {MarkedNames(template.steps[n]) \cup ComposeNames(template.steps[n]) :
              n \in DOMAIN template.steps} \ DOMAIN Images

----------------------------------------------------------------------------

\* C11: when an inputs entry or a service of a referenced mzcompose
\* configuration names an image the resolver does not know, the run ends in
\* the graph construction with a KeyError for such a name: no git command
\* has run, the pipeline is as loaded and nothing is uploaded.
C11_UnknownImageFatal ==
    (TrimRuns /\ UnknownNames # {} /\ pc \notin {"main", "build"}) =>
        /\ pc = "failed"
        /\ ~Built
        /\ error.type = "KeyError"
        /\ error.msg[1] \in UnknownNames
        /\ git = <<>>
        /\ pipeline = template
        /\ uploaded = <<>>

\* The run has ended on the unknown image of an mzcompose service, the step
\* having no inputs key.
C11_Witness ==
    /\ pc = "failed"
    /\ error = Raise("KeyError", <<"nope">>)
    /\ "inputs" \notin DOMAIN template.steps[1]
    /\ ComposeNames(template.steps[1]) = {"nope"}

\* The positions that follow one another in a run of main.
StageOrder ==
    {<<"main", "build">>, <<"main", "upload">>, <<"build", "fetch">>, <<"build", "failed">>,
     <<"fetch", "diff">>, <<"fetch", "failed">>, <<"diff", "closure">>,
     <<"closure", "upload">>, <<"closure", "failed">>, <<"upload", "done">>,
     <<"done", "main">>, <<"failed", "main">>}

\* C12: the stages follow one another in the order graph construction,
\* change detection, closure, trimming, upload; until trim_pipeline has
\* returned the pipeline is as loaded and nothing is uploaded; a run in
\* which an exception was raised leaves the pipeline as loaded and uploads
\* nothing.
C12_NoPartialOutput ==
    /\ [](pc \in {"build", "fetch", "diff", "closure", "failed"} =>
            pipeline = template /\ uploaded = <<>>)
    /\ [](error # NoError => pc = "failed" /\ pipeline = template /\ uploaded = <<>>)
    /\ [][pc' # pc => <<pc, pc'>> \in StageOrder]_vars

\* The closure has ended the run after the change detection found a changed step.
C12_Witness ==
    /\ pc = "failed"
    /\ Built
    /\ changed # {}
    /\ needed # {}

\* C13: when the branch is master or a tag is set, trim_pipeline is not
\* called and the template is uploaded as loaded; trim_pipeline is called
\* exactly when the branch is not master and the tag is empty.
C13_Gating ==
    LET skip == environ.BUILDKITE_BRANCH = "master" \/ environ.BUILDKITE_TAG # ""
    IN  /\ skip => /\ pc \in {"main", "upload", "done"}
                   /\ ~Built
                   /\ git = <<>>
                   /\ pc \in {"upload", "done"} => pipeline = template
                   /\ pc = "done" => uploaded = <<template>>
        /\ (~skip /\ pc \in {"upload", "done"}) =>
               /\ Built
               /\ git # <<>>
               /\ pipeline = [template EXCEPT !.steps = Restricted(template.steps, needed)]

\* A tagged build of a branch other than master has uploaded the whole
\* template although nothing differs from the base revision.
C13_Witness ==
    /\ pc = "done"
    /\ environ.BUILDKITE_BRANCH # "master"
    /\ environ.BUILDKITE_TAG # ""
    /\ dirty = {}
    /\ uploaded = <<template>>
    /\ template.steps # <<>>

\* C14: the first git command of a run is the fetch, it is the only fetch,
\* and every other command is a diff, which changes nothing in the
\* repository; no diff runs after a fetch that failed.
C14_FetchFirst ==
    /\ \A n \in DOMAIN git :
          /\ (n = 1) <=> (git[n].cmd = "fetch")
          /\ n > 1 => git[n].cmd \in {"diff --stat", "diff --quiet"}
    /\ error.type = "CalledProcessError" => git = <<GitFetch>>

\* Two per-step diff queries have run.
C14_Witness ==
    /\ pc = "closure"
    /\ Cardinality({n \in DOMAIN git : git[n].cmd = "diff --quiet"}) >= 2
    /\ git[1] = GitFetch

\* The change detection has asked git about every step that has inputs.
Detected == Built /\ i > Len(steps.order)

\* C15: a step with the mzcompose plugin has, among its image dependencies,
\* the image of every service of the referenced configuration that names
\* one; and such a step is in changed once the change detection is over
\* when a file of the transitive inputs of such an image differs from the
\* base revision, whether or not the step has an inputs key.
C15_ComposeImages ==
    Built =>
        \A n \in DOMAIN template.steps :
            LET config == template.steps[n]
            IN  /\ ComposeNames(config) \subseteq steps.map[config.id].image_dependencies
                /\ (Detected /\ \E name \in ComposeNames(config) : Images[name] \cap dirty # {})
                      => config.id \in changed

\* A step without an inputs key is changed on account of a file of the
\* image of an mzcompose service, the only file that differs.
C15_Witness ==
    /\ Detected
    /\ dirty = {"src/img1/main"}
    /\ "inputs" \notin DOMAIN template.steps[1]
    /\ ComposeNames(template.steps[1]) = {"img1"}
    /\ template.steps[1].id \in changed

\* The place of the step with id s in the template.
Place(s) == CHOOSE n \in DOMAIN template.steps : template.steps[n].id = s

\* What git answers about the step with id s: 0 when the step has no inputs.
Answer(s) ==
    IF Inputs(steps.map[s]) = {} THEN 0 ELSE GitDiffQuiet(Inputs(steps.map[s]), dirty)

\* The ids of the steps of the pipeline, in order.
PipelineIds == [n \in DOMAIN pipeline.steps |-> pipeline.steps[n].id]

C17_AsStated ==
    (Trimmed /\ \A s \in DOMAIN steps.map :
                    \A p \in Inputs(steps.map[s]) : Matched(p) \cap dirty = {})
        => /\ changed = {}
           /\ needed = {}
           /\ pipeline.steps = <<>>

\* C18: a needed step is a changed step or a step that depends_on edges lead
\* to from a changed step; a step that depends on a changed step is needed
\* only if it is one of these.
C18_PrerequisitesOnly ==
    Trimmed =>
        \A l \in changed :
            \A p \in {s \in DOMAIN steps.map : l \in Deps(s)} :
                p \in needed => (p \in changed \/ \E c \in changed : p \in Reachable(Deps(c)))

\* A step that depends on a changed step is trimmed.
C18_Witness ==
    /\ Trimmed
    /\ \E l \in changed :
          \E p \in DOMAIN steps.map : l \in Deps(p) /\ p \notin needed /\ p # l

\* What the closure has left to do: the steps not yet needed weigh more
\* than the dependencies and roots still to be looked at.
RECURSIVE Pending(_)
Pending(frames) ==
    IF frames = <<>> THEN 0
    ELSE 1 + Cardinality(Head(frames).rest) + Pending(Tail(frames))

Measure ==
    (Cardinality(DOMAIN steps.map \ needed)
        * (2 + Cardinality(UNION {Deps(s) : s \in DOMAIN steps.map})))
    + Cardinality(roots) + Pending(stack)

\* C19: the closure terminates: while it runs some step can be taken, and
\* every step that stays in it lowers a measure that is a natural number.  A call
\* of visit is pushed only for a step that was not needed, which becomes
\* needed by it, and needed never loses an id: no step is expanded twice.
C19_ClosureTerminates ==
    /\ [](pc = "closure" => ENABLED (VisitRoot \/ VisitDependency \/ Return \/ Restrict))
    /\ [][(pc = "closure" /\ pc' = "closure") =>
            /\ Measure' < Measure
            /\ IF Len(stack') > Len(stack)
               THEN /\ stack'[Len(stack')].id \notin needed
                    /\ needed' = needed \cup {stack'[Len(stack')].id}
               ELSE needed' = needed]_vars

\* The closure is over on a graph in which two needed steps depend on each
\* other.
C19_Witness ==
    /\ Trimmed
    /\ \E s \in needed, d \in needed : s # d /\ d \in Deps(s) /\ s \in Deps(d)

\* The closure is over on a graph in which a needed step depends on itself
\* and on another step.
C19_SelfDependency ==
    /\ Trimmed
    /\ \E s \in needed : s \in Deps(s) /\ Deps(s) # {s}

\* C20: the plain inputs entries of a step record are the step's
\* manual_inputs, the names behind "#" are image dependencies and never
\* manual inputs, and the paths git is asked about for the step are the
\* plain entries together with the transitive inputs of the images named
\* behind "#" and by the services of the step's mzcompose configurations.
C20_InputClassification ==
    Built =>
        \A n \in DOMAIN template.steps :
            LET config == template.steps[n]
                step == steps.map[config.id]
            IN  /\ step.manual_inputs = PlainEntries(config)
                /\ step.image_dependencies = MarkedNames(config) \cup ComposeNames(config)
                /\ \A q \in Queries(config.id) :
                      git[q].paths =
                          PlainEntries(config) \cup
                          UNION {Images[name] : name \in MarkedNames(config) \cup ComposeNames(config)}

\* Git has been asked about a step with a glob and an image in its inputs.
C20_Witness ==
    /\ Built
    /\ PlainEntries(template.steps[1]) # {}
    /\ MarkedNames(template.steps[1]) # {}
    /\ Queries(template.steps[1].id) # {}

\* The ids are the ids of as many step records.
UniqueIds(configs) ==
    \A n \in DOMAIN configs, m \in DOMAIN configs : configs[n].id = configs[m].id => n = m

\* The ids a step record lists under depends_on: the string, or the elements
\* of the list.
ListedDependencies(config) ==
    IF "depends_on" \in DOMAIN config THEN Range(config.depends_on.v) ELSE {}

\* C21: when the ids of the template are unique and trim_pipeline has
\* returned, every id that a record of the trimmed pipeline lists under
\* depends_on is the id of a record of the trimmed pipeline, which is
\* another record unless the step lists its own id: no surviving step waits
\* on a step that was trimmed away.  It is so in the pipeline that is
\* uploaded.
C21_SelfContained ==
    (Trimmed /\ UniqueIds(template.steps)) =>
        /\ \A n \in DOMAIN pipeline.steps :
              \A d \in ListedDependencies(pipeline.steps[n]) :
                  \E m \in DOMAIN pipeline.steps :
                      /\ pipeline.steps[m].id = d
                      /\ d # pipeline.steps[n].id => m # n
        /\ pc = "done" => uploaded = <<pipeline>>

\* The uploaded pipeline has lost a step and holds a step that lists another,
\* unchanged step under depends_on.
C21_Witness ==
    /\ Trimmed
    /\ pc = "done"
    /\ UniqueIds(template.steps)
    /\ Len(pipeline.steps) < Len(template.steps)
    /\ \E n \in DOMAIN pipeline.steps :
          \E d \in ListedDependencies(pipeline.steps[n]) :
              d # pipeline.steps[n].id /\ d \notin changed

====
